---- MODULE Spec2Model ----
(***************************************************************************)
(* Model of the formula synchronisation scripts                            *)
(*   scripts/check_updates.py   (detection)                                *)
(*   scripts/update_formulas.py (application)                              *)
(*                                                                         *)
(* Text is modelled as a sequence of lines (content.split("\n")); a line   *)
(* is a record of its indentation, its leading keyword, the whitespace     *)
(* after the keyword and its quoted argument.  A URL is a record of its    *)
(* prefix (scheme, host and directories up to the last "/"), the package   *)
(* name, the dot-separated version components and the dot-separated file   *)
(* suffixes; the string it stands for is                                   *)
(*   pre dir name "-" ver[1] "." ... "." ver[n] "." ext[1] "." ... ext[m]  *)
(***************************************************************************)
EXTENDS Integers, Sequences, FiniteSets, TLC

\* ------------------------------------------------------------------ bounds
MaxBlocks == 2
MaxPins == 2
MaxVerLen == 3
MaxUrlVerLen == 5
MaxFormulas == 2
MaxFreeze == 2
MaxCalls == 2
MaxRounds == 2

\* ------------------------------------------------------------ characters
Digits == {"0", "1"}
Words == {"post1", "x"}
Comps == Digits \cup Words

\* int(c) for a numeric component
NumVal(c) == IF c = "0" THEN 0 ELSE 1

\* all strings of 1..n dot-separated components
RECURSIVE VerStrings(_)
VerStrings(n) ==
  IF n = 0 THEN {}
  ELSE LET shorter == VerStrings(n - 1)
       IN  shorter \cup {<<c>> : c \in Comps}
                   \cup {Append(v, c) : v \in {w \in shorter : Len(w) = n - 1}, c \in Comps}

\* ------------------------------------------------------------- strings
\* str.lower() on the names the model uses
Lower(s) ==
  CASE s = "Foo" -> "foo"
    [] s = "Idna" -> "idna"
    [] s = "Certifi" -> "certifi"
    [] s = "Requests" -> "requests"
    [] s = "Foo_Bar" -> "foo_bar"
    [] s = "Foo-Bar" -> "foo-bar"
    [] s = "Zope_Event" -> "zope_event"
    [] s = "Zope-Event" -> "zope-event"
    [] OTHER -> s

\* str.replace("_", "-")
UnderscoreToHyphen(s) ==
  CASE s = "Foo_Bar" -> "Foo-Bar"
    [] s = "foo_bar" -> "foo-bar"
    [] s = "Zope_Event" -> "Zope-Event"
    [] s = "zope_event" -> "zope-event"
    [] OTHER -> s

\* str.replace("-", "_")
HyphenToUnderscore(s) ==
  CASE s = "Foo-Bar" -> "Foo_Bar"
    [] s = "foo-bar" -> "foo_bar"
    [] s = "Zope-Event" -> "Zope_Event"
    [] s = "zope-event" -> "zope_event"
    [] OTHER -> s

\* position of a string in Python's str ordering (code point order)
StrRank(s) ==
  CASE s = "Foo-Bar" -> 1
    [] s = "Foo_Bar" -> 2
    [] s = "Zope-Event" -> 3
    [] s = "Zope_Event" -> 4
    [] s = "certifi" -> 5
    [] s = "foo" -> 6
    [] s = "foo-bar" -> 7
    [] s = "foo_bar" -> 8
    [] s = "idna" -> 9
    [] s = "pip" -> 10
    [] s = "setuptools" -> 11
    [] s = "wheel" -> 12
    [] s = "zope-event" -> 13
    [] s = "zope_event" -> 14
    [] OTHER -> 0

\* ----------------------------------------------------------------- URLs
Canon == "https://files.pythonhosted.org/packages/"
Mirror == "https://mirror.example/packages/"
Plain == "https://example.com/dl/"

NoUrl == [pre |-> "", dir |-> "", name |-> "", ver |-> <<>>, ext |-> <<>>]
Url(pre, dir, name, ver, ext) ==
  [pre |-> pre, dir |-> dir, name |-> name, ver |-> ver, ext |-> ext]

TarGz == <<"tar.gz">>
Zip == <<"zip">>

\* "packages/" in url
HasPackagesSegment(u) == u.pre \in {Canon, Mirror}

IsPrefix(s, t) == Len(s) <= Len(t) /\ SubSeq(t, 1, Len(s)) = s

\* a in b for two URL strings: both start with the scheme, so a can only
\* occur at the start of b
UrlContains(b, a) ==
  /\ a # NoUrl
  /\ b.pre = a.pre /\ b.dir = a.dir /\ b.name = a.name /\ b.ver = a.ver
  /\ IsPrefix(a.ext, b.ext)

\* ---------------------------------------------------------------- lines
Line(kw, ind, sep, url, txt) ==
  [kw |-> kw, ind |-> ind, sep |-> sep, url |-> url, txt |-> txt]

ClassLn(name) == Line("class", 0, "sp", NoUrl, name)
DescLn == Line("desc", 2, "sp", NoUrl, "desc")
UrlLn(ind, sep, u) == Line("url", ind, sep, u, "")
ShaLn(ind, h) == Line("sha256", ind, "sp", NoUrl, h)
\* version "..." : the quoted version is carried in url.ver
VersionLn(v) == Line("version", 2, "sp", [NoUrl EXCEPT !.ver = v], "")
ResourceLn(name) == Line("resource", 2, "sp", NoUrl, name)
EndLn(ind) == Line("end", ind, "", NoUrl, "")
DefInstallLn == Line("def install", 2, "sp", NoUrl, "")
BodyLn == Line("virtualenv_install_with_resources", 4, "", NoUrl, "")
BlankLn == Line("", 0, "", NoUrl, "")
\* a line that consists of the single word "resource"
WordResourceLn == Line("resource", 0, "", NoUrl, "")

\* "url " in line
HasUrlSp(line) == line.kw = "url" /\ line.sep = "sp"
\* "sha256" in line
HasSha256(line) == line.kw = "sha256"
\* "resource " in line
HasResourceSp(line) == line.kw = "resource" /\ line.sep = "sp"
\* url\s+" matches in the line
HasQuotedUrl(line) == line.kw = "url" /\ line.sep \in {"sp", "tab"}

\* all sequences over S of length at most n
RECURSIVE SeqsUpTo(_, _)
SeqsUpTo(S, n) ==
  IF n = 0 THEN {<<>>}
  ELSE LET shorter == SeqsUpTo(S, n - 1)
       IN  shorter \cup {Append(q, x) : q \in {r \in shorter : Len(r) = n - 1}, x \in S}

NoRepeat(q) == \A a, b \in 1..Len(q) : q[a] = q[b] => a = b

\* ------------------------------------------------- update_formulas.py
\* re.search(r"/([a-zA-Z0-9_-]+)-[\d.]+\.tar\.gz$", tarball_url)
pypi_match_tarball(u) ==
  /\ u.name # ""
  /\ u.ver # <<>>
  /\ \A k \in 1..Len(u.ver) : u.ver[k] \in Digits
  /\ u.ext = TarGz

\* get_tarball_info(package_name, version): the sdist the index holds for a
\* pin, or None; sdists is the set of pin names that have one
PinUrl(name, ver) == Url(Canon, "pp/", name, ver, TarGz)
PinSha == "PINSHA"
get_tarball_info(sdists, name, ver) ==
  IF name \in sdists THEN [found |-> TRUE, url |-> PinUrl(name, ver), sha256 |-> PinSha]
  ELSE [found |-> FALSE, url |-> NoUrl, sha256 |-> ""]

\* generate_resource_block: the four lines of a block, or <<>> for None
generate_resource_block(sdists, name, ver) ==
  LET tarball_info == get_tarball_info(sdists, name, ver)
      resource_name == UnderscoreToHyphen(Lower(name))
  IN  IF ~tarball_info.found THEN <<>>
      ELSE << ResourceLn(resource_name),
              UrlLn(4, "sp", tarball_info.url),
              ShaLn(4, tarball_info.sha256),
              EndLn(2) >>

\* re.sub(r'(url\s+"https://files\.pythonhosted\.org/packages/)[^"]+(")',
\*        rf'\g<1>{tarball_url.split("packages/")[1]}\2', content)
SubCanonicalLine(line, t) ==
  IF HasQuotedUrl(line) /\ line.url.pre = Canon
  THEN [line EXCEPT !.url = Url(Canon, t.dir, t.name, t.ver, t.ext)]
  ELSE line
SubCanonical(lines, t) ==
  [k \in 1..Len(lines) |-> SubCanonicalLine(lines[k], t)]

\* tarball_url in content
ContentContains(lines, t) ==
  \E k \in 1..Len(lines) : UrlContains(lines[k].url, t)

\* re.sub(r'(url\s+")[^"]+(\.tar\.gz")', rf'\g<1>{tarball_url}\2', content)
SubGenericLine(line, t) ==
  IF /\ HasQuotedUrl(line)
     /\ line.url.ext # <<>>
     /\ line.url.ext[Len(line.url.ext)] = "tar.gz"
  THEN [line EXCEPT !.url = [t EXCEPT !.ext = t.ext \o TarGz]]
  ELSE line
SubGeneric(lines, t) ==
  [k \in 1..Len(lines) |-> SubGenericLine(lines[k], t)]

\* "Update main URL" and "If URL format is different, try a more general
\* approach"
UpdateMainUrl(file, tarball_url) ==
  LET c1 == SubCanonical(file, tarball_url)
  IN  IF ~ContentContains(c1, tarball_url) THEN SubGeneric(c1, tarball_url) ELSE c1

\* "resource" not in lines[max(0, i - 1) : i]  (i is 1-based here): the
\* slice is the list holding the previous line, and "in" on a list compares
\* whole elements
ResourceNotInPrevSlice(lines, i) ==
  ~(i > 1 /\ lines[i - 1] = WordResourceLn)

ScanInit ==
  [new_lines |-> <<>>, in_main_section |-> TRUE, url_found |-> FALSE]

\* one iteration of "for i, line in enumerate(lines)"
ScanStepAnySection(st, lines, i, tarball_url, sha256) ==
  LET line == lines[i]
  IN  IF HasUrlSp(line) /\ ResourceNotInPrevSlice(lines, i)
      THEN [st EXCEPT !.url_found = TRUE,
                      !.new_lines = Append(@, UrlLn(2, "sp", tarball_url))]
      ELSE IF st.url_found /\ HasSha256(line)
      THEN [st EXCEPT !.new_lines = Append(@, ShaLn(2, sha256)),
                      !.url_found = FALSE,
                      !.in_main_section = FALSE]
      ELSE [st EXCEPT !.in_main_section = IF HasResourceSp(line) THEN FALSE ELSE @,
                      !.new_lines = Append(@, line)]
ScanStep(st, lines, i, tarball_url, sha256) ==
  LET line == lines[i]
  IN  IF HasUrlSp(line) /\ ResourceNotInPrevSlice(lines, i)
      THEN [st EXCEPT !.url_found = TRUE,
                      !.new_lines = Append(@, UrlLn(2, "sp", tarball_url))]
      ELSE IF st.url_found /\ HasSha256(line) /\ st.in_main_section
      THEN [st EXCEPT !.new_lines = Append(@, ShaLn(2, sha256)),
                      !.url_found = FALSE,
                      !.in_main_section = FALSE]
      ELSE [st EXCEPT !.in_main_section = IF HasResourceSp(line) THEN FALSE ELSE @,
                      !.new_lines = Append(@, line)]

RECURSIVE ScanFrom(_, _, _, _, _)
ScanFrom(st, lines, i, tarball_url, sha256) ==
  IF i > Len(lines) THEN st
  ELSE ScanFrom(ScanStep(st, lines, i, tarball_url, sha256), lines, i + 1,
                tarball_url, sha256)

\* r'\n  resource "[^"]+" do\n    url "[^"]+"\n    sha256 "[^"]+"\n  end'
\* matches the four lines starting at i
ResourceBlockAt(lines, i) ==
  /\ i > 1
  /\ i + 3 <= Len(lines)
  /\ lines[i].kw = "resource" /\ lines[i].ind = 2 /\ lines[i].sep = "sp"
  /\ lines[i + 1].kw = "url" /\ lines[i + 1].ind = 4 /\ lines[i + 1].sep = "sp"
  /\ lines[i + 2].kw = "sha256" /\ lines[i + 2].ind = 4
  /\ lines[i + 3].kw = "end" /\ lines[i + 3].ind = 2

\* re.sub(<resource block>, "", content)
RECURSIVE RemoveBlocksFrom(_, _)
RemoveBlocksFrom(lines, i) ==
  IF i > Len(lines) THEN <<>>
  ELSE IF ResourceBlockAt(lines, i) THEN RemoveBlocksFrom(lines, i + 4)
  ELSE <<lines[i]>> \o RemoveBlocksFrom(lines, i + 1)
RemoveBlocks(lines) == RemoveBlocksFrom(lines, 1)

\* sorted(deps, key=lambda x: x[0].lower()): stable insertion sort
SortKey(pin) == StrRank(Lower(pin.name))
RECURSIVE InsertSorted(_, _)
InsertSorted(sorted, pin) ==
  IF sorted = <<>> THEN <<pin>>
  ELSE IF SortKey(pin) < SortKey(Head(sorted)) THEN <<pin>> \o sorted
  ELSE <<Head(sorted)>> \o InsertSorted(Tail(sorted), pin)
RECURSIVE SortedDeps(_)
SortedDeps(deps) ==
  IF deps = <<>> THEN <<>>
  ELSE InsertSorted(SortedDeps(SubSeq(deps, 1, Len(deps) - 1)), deps[Len(deps)])

\* resource_blocks: the blocks of the pins that have an sdist, in order
RECURSIVE ResourceBlocks(_, _)
ResourceBlocks(sdists, pins) ==
  IF pins = <<>> THEN <<>>
  ELSE LET block == generate_resource_block(sdists, Head(pins).name, Head(pins).ver)
       IN  (IF block = <<>> THEN <<>> ELSE <<block>>)
           \o ResourceBlocks(sdists, Tail(pins))

\* "\n\n".join(resource_blocks), as lines
RECURSIVE JoinBlocks(_)
JoinBlocks(blocks) ==
  IF blocks = <<>> THEN <<BlankLn>>
  ELSE IF Len(blocks) = 1 THEN Head(blocks)
  ELSE Head(blocks) \o <<BlankLn>> \o JoinBlocks(Tail(blocks))

\* re.sub(r"(\n  def install)", f"\n\n{resources_text}\n\\1", content)
IsDefInstallAt(lines, i) ==
  i > 1 /\ lines[i].kw = "def install" /\ lines[i].ind = 2
RECURSIVE InsertBeforeInstall(_, _, _)
InsertBeforeInstall(lines, i, resources_text) ==
  IF i > Len(lines) THEN <<>>
  ELSE (IF IsDefInstallAt(lines, i)
        THEN <<BlankLn>> \o resources_text \o <<BlankLn>>
        ELSE <<>>)
       \o <<lines[i]>> \o InsertBeforeInstall(lines, i + 1, resources_text)

\* update_formula: what it returns ("True", "False", or the exception that
\* leaves it), whether formula_path.write_text ran, and the text written.
\* file is the recipe text, or <<>> for a file that cannot be read; deps is
\* what get_package_dependencies returned
Unreadable == <<>>
update_formula(file, tarball_url, sha256, update_resources, deps, sdists) ==
  IF file = Unreadable
  THEN [ret |-> "OSError", written |-> FALSE, content |-> file]
  ELSE IF ~pypi_match_tarball(tarball_url)
  THEN [ret |-> "False", written |-> FALSE, content |-> file]
  ELSE IF ~HasPackagesSegment(tarball_url)
  THEN [ret |-> "IndexError", written |-> FALSE, content |-> file]
  ELSE
    LET c2 == UpdateMainUrl(file, tarball_url)
        c3 == ScanFrom(ScanInit, c2, 1, tarball_url, sha256).new_lines
        c4 == IF update_resources /\ deps # <<>>
              THEN InsertBeforeInstall(
                     RemoveBlocks(c3), 1,
                     JoinBlocks(ResourceBlocks(sdists, SortedDeps(deps))))
              ELSE c3
    IN  [ret |-> "True", written |-> TRUE, content |-> c4]

\* ------------------------------------------------------- state
VARIABLES
  apply,    \* update_formula on one recipe file: inputs, file on disk, results
  scan,     \* the checksum loop of update_formula, line by line
  resolve,  \* get_package_dependencies, step by step
  check,    \* check_formula_update on one FormulaInfo
  extract,  \* extract_formula_info on one recipe text
  run       \* check_updates.main followed by update_formulas.main

vars == <<apply, scan, resolve, check, extract, run>>

Idle == [pc |-> "idle"]

\* ------------------------------------------------- recipe texts
OldVer == <<"1", "0">>
NewVer == <<"1", "1">>
OldUrls ==
  { Url(Canon, "aa/", "foo", OldVer, TarGz),
    Url(Plain, "", "foo", OldVer, TarGz),
    Url(Canon, "aa/", "foo", OldVer, Zip) }

MainSections ==
  {<<>>} \cup
  { <<UrlLn(2, sep, u)>> \o sha :
      u \in OldUrls, sep \in {"sp", "tab"}, sha \in {<<>>, <<ShaLn(2, "OLD")>>} } \cup
  { <<ShaLn(2, "OLD"), UrlLn(2, "sp", u)>> : u \in OldUrls }

OldNames == {"idna", "certifi"}
OldBlock(name) ==
  << BlankLn, ResourceLn(name), UrlLn(4, "sp", PinUrl(name, OldVer)),
     ShaLn(4, "RESOLD"), EndLn(2) >>
RECURSIVE OldBlocks(_)
OldBlocks(names) ==
  IF names = <<>> THEN <<>> ELSE OldBlock(Head(names)) \o OldBlocks(Tail(names))

Tails ==
  { <<BlankLn, DefInstallLn, BodyLn, EndLn(2), EndLn(0)>>, <<EndLn(0)>> }

RecipeTexts ==
  { <<ClassLn("Foo"), DescLn>> \o m \o OldBlocks(b) \o t :
      m \in MainSections, b \in SeqsUpTo(OldNames, MaxBlocks), t \in Tails }

TarballUrls ==
  { Url(Canon, "bb/", "foo", NewVer, TarGz),
    Url(Mirror, "", "foo", NewVer, TarGz),
    Url(Plain, "", "foo", NewVer, TarGz),
    Url(Canon, "bb/", "foo", <<"1", "0", "post1">>, TarGz),
    Url(Canon, "bb/", "foo", NewVer, Zip) }

PinNames == {"idna", "Zope_Event", "certifi"}
Pin(name) == [name |-> name, ver |-> NewVer]
PinLists == {q \in SeqsUpTo({Pin(n) : n \in PinNames}, MaxPins) : NoRepeat(q)}

\* ------------------------------------------- update_formula, whole calls
ApplyInputs ==
  { [file |-> f, tarball_url |-> t, sha256 |-> "NEW",
     update_resources |-> r, deps |-> d, sdists |-> s] :
      f \in RecipeTexts, t \in TarballUrls, r \in BOOLEAN,
      d \in PinLists, s \in {PinNames, PinNames \ {"idna"}} }

InitApply ==
  /\ apply \in { [in |-> a, disk |-> a.file, rets |-> <<>>, hist |-> <<>>] :
                   a \in { x \in ApplyInputs :
                             ~x.update_resources => x.deps = <<>> /\ x.sdists = PinNames } }
  /\ scan = Idle /\ resolve = Idle /\ check = Idle /\ extract = Idle /\ run = Idle

\* one call update_formula(formula_path, ...) with the same PendingUpdate
UpdateFormula ==
  /\ apply # Idle
  /\ Len(apply.rets) < MaxCalls
  /\ LET r == update_formula(apply.disk, apply.in.tarball_url, apply.in.sha256,
                             apply.in.update_resources, apply.in.deps,
                             apply.in.sdists)
         disk2 == IF r.written THEN r.content ELSE apply.disk
     IN  apply' = [apply EXCEPT !.disk = disk2,
                                !.rets = Append(@, [ret |-> r.ret, written |-> r.written]),
                                !.hist = Append(@, disk2)]
  /\ UNCHANGED <<scan, resolve, check, extract, run>>

NextApply == UpdateFormula
SpecApply == InitApply /\ [][NextApply]_vars

\* ----------------------------------------- regions of a recipe text
\* line k opens a sub-resource block
IsOpener(lines, k) == lines[k].kw = "resource" /\ lines[k].sep = "sp"
\* line k lies inside a sub-resource block (opener and closing end included)
InBlock(lines, k) ==
  \E j \in 1..k :
    /\ IsOpener(lines, j)
    /\ \A m \in j..(k - 1) : ~(lines[m].kw = "end" /\ lines[m].ind = 2)
Min(S) == CHOOSE x \in S : \A y \in S : x <= y
\* index of the primary url declaration (0 when there is none)
PrimaryUrlIdx(lines) ==
  LET S == {k \in 1..Len(lines) : lines[k].kw = "url" /\ ~InBlock(lines, k)}
  IN  IF S = {} THEN 0 ELSE Min(S)
\* index of the checksum declaration that follows it (0 when there is none)
PrimaryShaIdx(lines) ==
  LET S == {k \in 1..Len(lines) :
              /\ lines[k].kw = "sha256" /\ ~InBlock(lines, k)
              /\ PrimaryUrlIdx(lines) # 0 /\ k > PrimaryUrlIdx(lines)}
  IN  IF S = {} THEN 0 ELSE Min(S)
\* the text without its sub-resource blocks and the blank lines around them
RECURSIVE OutsideBlocks(_, _)
OutsideBlocks(lines, k) ==
  IF k > Len(lines) THEN <<>>
  ELSE (IF InBlock(lines, k) \/ lines[k] = BlankLn THEN <<>> ELSE <<lines[k]>>)
       \o OutsideBlocks(lines, k + 1)
\* a and b are equal except at the primary url and checksum lines of a
SameButPrimary(a, b) ==
  /\ Len(a) = Len(b)
  /\ \A k \in 1..Len(a) :
       a[k] # b[k] => k \in {PrimaryUrlIdx(a), PrimaryShaIdx(a)}
\* the primary url declaration exists and one of the two patterns matches it
PrimaryUrlLocated(lines) ==
  LET k == PrimaryUrlIdx(lines)
  IN  /\ k # 0
      /\ HasQuotedUrl(lines[k])
      /\ \/ lines[k].url.pre = Canon
         \/ lines[k].url.ext # <<>> /\ lines[k].url.ext[Len(lines[k].url.ext)] = "tar.gz"

ReplacementSkipped == ~apply.in.update_resources \/ apply.in.deps = <<>>
FirstWritten == apply # Idle /\ Len(apply.rets) >= 1 /\ apply.rets[1].written

\* C1: a written file differs from the input only in the primary url line, the
\* primary checksum line and, when pins were resolved and requested, the
\* sub-resource blocks; with replacement skipped every line of an existing
\* resource block is the input line.
C1_FramePreserved ==
  FirstWritten =>
    IF ReplacementSkipped
    THEN SameButPrimary(apply.in.file, apply.hist[1])
    ELSE SameButPrimary(OutsideBlocks(apply.in.file, 1),
                        OutsideBlocks(apply.hist[1], 1))

\* C2: with replacement requested and a non-empty pin set, the written file
\* holds no block of the input and exactly one generated block per pin, all of
\* them right before the install declaration.
Openers(lines) == {k \in 1..Len(lines) : IsOpener(lines, k)}
GeneratedBlockAt(lines, k) ==
  /\ k + 3 <= Len(lines)
  /\ \E d \in 1..Len(apply.in.deps) :
       SubSeq(lines, k, k + 3) =
         generate_resource_block(PinNames, apply.in.deps[d].name, apply.in.deps[d].ver)
BeforeInstall(lines, k) ==
  \E n \in (k + 1)..Len(lines) :
    /\ lines[n] = DefInstallLn
    /\ \A m \in k..(n - 1) : InBlock(lines, m) \/ lines[m] = BlankLn
C2_BlocksReplaced ==
  (/\ FirstWritten /\ ~ReplacementSkipped
   /\ apply.in.sdists = PinNames
   /\ \E k \in 1..Len(apply.in.file) : apply.in.file[k] = DefInstallLn) =>
    LET out == apply.hist[1]
    IN  /\ Cardinality(Openers(out)) = Len(apply.in.deps)
        /\ \A k \in Openers(out) : GeneratedBlockAt(out, k) /\ BeforeInstall(out, k)

\* C3: when neither pattern locates the primary url declaration the call
\* returns False and writes nothing.
C3_UnlocatedNotWritten ==
  (apply # Idle /\ Len(apply.rets) >= 1 /\ ~PrimaryUrlLocated(apply.in.file)) =>
    (apply.rets[1].ret = "False" /\ ~apply.rets[1].written)

\* C7: applying the same PendingUpdate twice leaves the text of the first
\* application.
C7_Idempotent ==
  (apply # Idle /\ Len(apply.rets) >= 2 /\ apply.rets[1].written /\ apply.rets[2].written) =>
    apply.hist[2] = apply.hist[1]

\* ------------------------------------- the checksum loop, line by line
\* texts in which the sub-resource blocks come before the primary section
BlocksFirstTexts ==
  { <<ClassLn("Foo"), DescLn>> \o OldBlocks(b) \o <<BlankLn>> \o m \o t :
      m \in MainSections, b \in SeqsUpTo(OldNames, MaxBlocks) \ {<<>>}, t \in Tails }

InitScan ==
  /\ scan \in { [lines |-> UpdateMainUrl(f, t), tarball_url |-> t, sha256 |-> "NEW",
                 i |-> 1, new_lines |-> <<>>, in_main_section |-> TRUE,
                 url_found |-> FALSE] :
                  f \in RecipeTexts \cup BlocksFirstTexts,
                  t \in {u \in TarballUrls : pypi_match_tarball(u) /\ HasPackagesSegment(u)} }
  /\ apply = Idle /\ resolve = Idle /\ check = Idle /\ extract = Idle /\ run = Idle

\* the body of "for i, line in enumerate(lines)" for the next line
ScanLine ==
  /\ scan # Idle
  /\ scan.i <= Len(scan.lines)
  /\ scan' = [ScanStep(scan, scan.lines, scan.i, scan.tarball_url, scan.sha256)
                EXCEPT !.i = scan.i + 1]
  /\ UNCHANGED <<apply, resolve, check, extract, run>>

NextScan == ScanLine
SpecScan == InitScan /\ [][NextScan]_vars

\* checksum lines the loop has written differently from its input
ChangedSha ==
  {k \in 1..Len(scan.new_lines) :
     scan.lines[k].kw = "sha256" /\ scan.new_lines[k] # scan.lines[k]}

\* C6: the checksum loop replaces at most one checksum line, the first one
\* after the primary url line, and only when no resource marker line came
\* before it; a checksum inside a sub-resource block is never changed.
C6_OneMainChecksum ==
  scan # Idle =>
    /\ Cardinality(ChangedSha) <= 1
    /\ \A k \in ChangedSha :
         /\ scan.new_lines[k] = ShaLn(2, scan.sha256)
         /\ \A j \in 1..(k - 1) : ~IsOpener(scan.lines, j)
         /\ k = PrimaryShaIdx(scan.lines)
    /\ \A k \in 1..Len(scan.new_lines) :
         (scan.lines[k].kw = "sha256" /\ InBlock(scan.lines, k))
           => scan.new_lines[k] = scan.lines[k]

\* the loop has finished on a text with a block, and replaced the main checksum
C6_Witness ==
  /\ scan # Idle
  /\ scan.i > Len(scan.lines)
  /\ ChangedSha # {}
  /\ \E k \in 1..Len(scan.lines) :
       scan.lines[k].kw = "sha256" /\ InBlock(scan.lines, k)

\* ------------------------------- get_package_dependencies, step by step
\* a line of "pip freeze" output: name, then eqs times "==" and a version
FreezeLine(name, eqs) == [name |-> name, eqs |-> eqs, ver |-> NewVer]
FreezeLines ==
  {FreezeLine(n, 1) : n \in {"Foo_Bar", "pip", "idna"}}
    \cup {FreezeLine("idna", 0), FreezeLine("idna", 2)}
FreezeOutputs == SeqsUpTo(FreezeLines, MaxFreeze)

\* the loop over result.stdout.strip().split("\n"): the list deps, and
\* whether some line raised ValueError by not unpacking into name and version
RECURSIVE ParseFreeze(_, _, _)
ParseFreeze(stdout, package_name, deps) ==
  IF stdout = <<>> THEN [raised |-> FALSE, deps |-> deps]
  ELSE
    LET line == Head(stdout)
        skip_packages ==
          {"pip", "setuptools", "wheel", HyphenToUnderscore(Lower(package_name))}
        dep_name_normalized == HyphenToUnderscore(Lower(line.name))
    IN  IF line.eqs = 0 THEN ParseFreeze(Tail(stdout), package_name, deps)
        ELSE IF line.eqs # 1 THEN [raised |-> TRUE, deps |-> deps]
        ELSE IF dep_name_normalized \notin skip_packages
        THEN ParseFreeze(Tail(stdout), package_name,
                         Append(deps, [name |-> line.name, ver |-> line.ver]))
        ELSE ParseFreeze(Tail(stdout), package_name, deps)

\* leaving "with tempfile.TemporaryDirectory()": __exit__ removes the
\* directory, whether the block returns or raises
TornDown(r) == [r EXCEPT !.tmpdir = FALSE]
Return(r, path, value) ==
  TornDown([r EXCEPT !.pc = "returned", !.path = path, !.ret = value])
Raise(r, exc) ==
  TornDown([r EXCEPT !.pc = "raised", !.path = "exception", !.raised = exc])

InitResolve ==
  /\ resolve \in { [pc |-> "with", package_name |-> n, tmpdir |-> FALSE,
                    stdout |-> <<>>, path |-> "", ret |-> <<>>, raised |-> ""] :
                     n \in {"Foo-Bar", "idna"} }
  /\ apply = Idle /\ scan = Idle /\ check = Idle /\ extract = Idle /\ run = Idle

\* with tempfile.TemporaryDirectory() as tmpdir
EnterWith ==
  /\ resolve.pc = "with"
  /\ resolve' = [resolve EXCEPT !.pc = "venv", !.tmpdir = TRUE]
  /\ UNCHANGED <<apply, scan, check, extract, run>>

\* subprocess.run([sys.executable, "-m", "venv", ...])
CreateVenv ==
  /\ resolve.pc = "venv"
  /\ \E returncode \in {0, 1} :
       resolve' = IF returncode # 0 THEN Return(resolve, "venv failed", <<>>)
                  ELSE [resolve EXCEPT !.pc = "install"]
  /\ UNCHANGED <<apply, scan, check, extract, run>>

\* subprocess.run([pip_path, "install", ...]); run itself raises OSError
\* when pip_path cannot be executed
InstallPackage ==
  /\ resolve.pc = "install"
  /\ \E outcome \in {"0", "1", "OSError"} :
       resolve' = CASE outcome = "OSError" -> Raise(resolve, "OSError")
                    [] outcome = "1" -> Return(resolve, "install failed", <<>>)
                    [] OTHER -> [resolve EXCEPT !.pc = "freeze"]
  /\ UNCHANGED <<apply, scan, check, extract, run>>

\* subprocess.run([pip_path, "freeze"])
Freeze ==
  /\ resolve.pc = "freeze"
  /\ \/ resolve' = Raise(resolve, "OSError")
     \/ resolve' = Return(resolve, "freeze failed", <<>>)
     \/ \E out \in FreezeOutputs :
          resolve' = [resolve EXCEPT !.pc = "parse", !.stdout = out]
  /\ UNCHANGED <<apply, scan, check, extract, run>>

\* the loop over the output, and "return deps"
CollectDeps ==
  /\ resolve.pc = "parse"
  /\ LET parsed == ParseFreeze(resolve.stdout, resolve.package_name, <<>>)
     IN  resolve' = IF parsed.raised THEN Raise(resolve, "ValueError")
                    ELSE Return(resolve, "success", parsed.deps)
  /\ UNCHANGED <<apply, scan, check, extract, run>>

NextResolve == EnterWith \/ CreateVenv \/ InstallPackage \/ Freeze \/ CollectDeps
SpecResolve == InitResolve /\ [][NextResolve]_vars

\* C8: on every exit path of get_package_dependencies the disposable
\* directory is gone when control leaves the function, and every failure path
\* (all paths but success) returns the empty list instead of raising.
C8_TornDownAndEmpty ==
  (resolve # Idle /\ resolve.pc \in {"returned", "raised"}) =>
    /\ ~resolve.tmpdir
    /\ resolve.path # "success" => (resolve.pc = "returned" /\ resolve.ret = <<>>)

\* ---------------------------------------------------- check_updates.py
\* packaging.version.Version(v): a release of numeric components, with an
\* optional final post-release component; anything else is InvalidVersion
IsValidVersion(v) ==
  /\ Len(v) >= 1
  /\ v[1] \in Digits
  /\ \A k \in 1..(Len(v) - 1) : v[k] \in Digits
  /\ v[Len(v)] \in Digits \cup {"post1"}

RECURSIVE StripTrailingZeros(_)
StripTrailingZeros(r) ==
  IF r # <<>> /\ r[Len(r)] = 0 THEN StripTrailingZeros(SubSeq(r, 1, Len(r) - 1))
  ELSE r

\* Version._key: the release without trailing zeros, then the post-release
CmpKey(v) ==
  LET digits == SelectSeq(v, LAMBDA c : c \in Digits)
  IN  [release |-> StripTrailingZeros([k \in 1..Len(digits) |-> NumVal(digits[k])]),
       post |-> IF v[Len(v)] = "post1" THEN 1 ELSE 0]

\* a < b for tuples of integers
RECURSIVE TupleLess(_, _)
TupleLess(a, b) ==
  IF b = <<>> THEN FALSE
  ELSE IF a = <<>> THEN TRUE
  ELSE IF Head(a) # Head(b) THEN Head(a) < Head(b)
  ELSE TupleLess(Tail(a), Tail(b))

\* Version(a) < Version(b)
VersionLess(a, b) ==
  LET ka == CmpKey(a)
      kb == CmpKey(b)
  IN  \/ TupleLess(ka.release, kb.release)
      \/ ka.release = kb.release /\ ka.post < kb.post
\* Version(a) <= Version(b)
VersionLessEq(a, b) ==
  LET ka == CmpKey(a)
      kb == CmpKey(b)
  IN  \/ TupleLess(ka.release, kb.release)
      \/ ka.release = kb.release /\ ka.post <= kb.post

\* r"/([a-zA-Z0-9_-]+)-(\d+\.\d+(?:\.\d+)?(?:\.\w+)?)\.tar\.gz$" on the url:
\* two numeric components, an optional numeric one, an optional word
pypi_match_lenient(u) ==
  /\ u.name # ""
  /\ u.ext = TarGz
  /\ \E third \in {0, 1}, last \in {0, 1} :
       /\ Len(u.ver) = 1 + third + last
       /\ u.ver[1] \in Digits
       /\ third = 1 => u.ver[2] \in Digits
       /\ last = 1 => u.ver[Len(u.ver)] \in Comps
pypi_match(u) ==
  /\ u.name # ""
  /\ u.ext = TarGz
  /\ \E third \in {0, 1}, last \in {0, 1} :
       /\ Len(u.ver) = 2 + third + last
       /\ u.ver[1] \in Digits /\ u.ver[2] \in Digits
       /\ third = 1 => u.ver[3] \in Digits
       /\ last = 1 => u.ver[Len(u.ver)] \in Comps

\* index of the first match, 0 for no match
FirstIdx(S) == IF S = {} THEN 0 ELSE Min(S)

NoInfo == [kind |-> "None", name |-> "", version |-> <<>>, pypi_name |-> ""]
\* extract_formula_info on the text of a readable recipe file
extract_formula_info(content) ==
  LET class_match == FirstIdx({k \in 1..Len(content) : content[k].kw = "class"})
      url_match == FirstIdx({k \in 1..Len(content) : HasQuotedUrl(content[k])})
      version_match == FirstIdx({k \in 1..Len(content) : content[k].kw = "version"})
  IN  IF class_match = 0 THEN NoInfo
      ELSE IF url_match = 0 THEN NoInfo
      ELSE
        LET formula_name == Lower(content[class_match].txt)
            url == content[url_match].url
        IN  IF pypi_match(url)
            THEN [kind |-> "FormulaInfo", name |-> formula_name,
                  version |-> url.ver,
                  pypi_name |-> Lower(UnderscoreToHyphen(url.name))]
            ELSE IF version_match # 0
            THEN [kind |-> "FormulaInfo", name |-> formula_name,
                  version |-> content[version_match].url.ver,
                  pypi_name |-> formula_name]
            ELSE NoInfo

\* the metadata document of the index for one package
PypiDoc(version, urls) == [status |-> "ok", version |-> version, urls |-> urls]
\* get_pypi_info returned None
PypiNone == [status |-> "None", version |-> <<>>, urls |-> <<>>]
\* a document without the "info" field
PypiNoInfoField == [status |-> "no info", version |-> <<>>, urls |-> <<>>]
UrlInfo(packagetype, url, sha256) ==
  [packagetype |-> packagetype, url |-> url, sha256 |-> sha256]

IsSdistTarGz(url_info) ==
  /\ url_info.packagetype = "sdist"
  /\ url_info.url.ext # <<>>
  /\ url_info.url.ext[Len(url_info.url.ext)] = "tar.gz"

NoUpdate(kind) ==
  [kind |-> kind, formula |-> "", pypi_name |-> "", current_version |-> <<>>,
   latest_version |-> <<>>, tarball_url |-> NoUrl, sha256 |-> ""]

\* the try block of check_formula_update: TRUE when it returns None
UpToDateStrict(current_version, latest_version) ==
  IF IsValidVersion(current_version) /\ IsValidVersion(latest_version)
  THEN VersionLess(latest_version, current_version)
  ELSE latest_version = current_version
UpToDate(current_version, latest_version) ==
  IF IsValidVersion(current_version) /\ IsValidVersion(latest_version)
  THEN VersionLessEq(latest_version, current_version)
  ELSE latest_version = current_version

\* check_formula_update: an UpdateInfo, None, or the KeyError that leaves it
check_formula_update(formula_info, pypi_info) ==
  IF pypi_info.status = "None" THEN NoUpdate("None")
  ELSE IF pypi_info.status = "no info" THEN NoUpdate("KeyError")
  ELSE IF UpToDate(formula_info.version, pypi_info.version) THEN NoUpdate("None")
  ELSE
    LET tarball == FirstIdx({k \in 1..Len(pypi_info.urls) :
                               IsSdistTarGz(pypi_info.urls[k])})
    IN  IF tarball = 0 THEN NoUpdate("None")
        ELSE [kind |-> "UpdateInfo",
              formula |-> formula_info.name,
              pypi_name |-> formula_info.pypi_name,
              current_version |-> formula_info.version,
              latest_version |-> pypi_info.version,
              tarball_url |-> pypi_info.urls[tarball].url,
              sha256 |-> pypi_info.urls[tarball].sha256]

\* ------------------------------- check_formula_update on one FormulaInfo
SdistOf(name, version) == UrlInfo("sdist", Url(Canon, "bb/", name, version, TarGz), "NEW")
WheelOf(name, version) == UrlInfo("bdist_wheel", Url(Canon, "bb/", name, version, <<"whl">>), "WHL")

InitCheck ==
  /\ check \in
       { [pc |-> "call",
          formula_info |-> [kind |-> "FormulaInfo", name |-> "foo", version |-> c,
                            pypi_name |-> "foo"],
          pypi_info |-> PypiDoc(l, IF sdist
                                   THEN <<WheelOf("foo", l), SdistOf("foo", l)>>
                                   ELSE <<WheelOf("foo", l)>>),
          update |-> NoUpdate("")] :
            c \in VerStrings(MaxVerLen), l \in VerStrings(MaxVerLen),
            sdist \in BOOLEAN }
  /\ apply = Idle /\ scan = Idle /\ resolve = Idle /\ extract = Idle /\ run = Idle

CheckFormulaUpdate ==
  /\ check # Idle
  /\ check.pc = "call"
  /\ check' = [check EXCEPT !.pc = "done",
                            !.update = check_formula_update(check.formula_info,
                                                            check.pypi_info)]
  /\ UNCHANGED <<apply, scan, resolve, extract, run>>

NextCheck == CheckFormulaUpdate
SpecCheck == InitCheck /\ [][NextCheck]_vars

\* C5: check_formula_update emits an update only if the latest version is
\* strictly greater than the declared one when both parse, and only if the
\* strings differ when one does not parse; a recipe whose declared version is
\* the latest version yields no update.
C5_OnlyNewer ==
  (check # Idle /\ check.pc = "done") =>
    LET c == check.formula_info.version
        l == check.pypi_info.version
    IN  /\ check.update.kind = "UpdateInfo" =>
             IF IsValidVersion(c) /\ IsValidVersion(l)
             THEN VersionLess(c, l)
             ELSE l # c
        /\ c = l => check.update.kind = "None"

\* an update was emitted for two parseable versions
C5_Witness ==
  /\ check # Idle /\ check.pc = "done"
  /\ check.update.kind = "UpdateInfo"
  /\ IsValidVersion(check.formula_info.version)
  /\ IsValidVersion(check.pypi_info.version)

\* -------------------------------- extract_formula_info on one recipe text
ExtractUrls ==
  { Url(Canon, "aa/", n, v, e) :
      n \in {"requests", "Foo_Bar"}, v \in VerStrings(MaxUrlVerLen), e \in {TarGz, Zip} }
LiteralVer == <<"0", "1">>
ExtractTexts ==
  { c \o <<DescLn>> \o u \o v \o <<EndLn(0)>> :
      c \in {<<>>, <<ClassLn("Foo")>>},
      u \in {<<>>} \cup {<<UrlLn(2, "sp", x), ShaLn(2, "OLD")>> : x \in ExtractUrls},
      v \in {<<>>, <<VersionLn(LiteralVer)>>} }

InitExtract ==
  /\ extract \in {[pc |-> "call", content |-> t, info |-> NoInfo] : t \in ExtractTexts}
  /\ apply = Idle /\ scan = Idle /\ resolve = Idle /\ check = Idle /\ run = Idle

ExtractFormulaInfo ==
  /\ extract # Idle
  /\ extract.pc = "call"
  /\ extract' = [extract EXCEPT !.pc = "done",
                                !.info = extract_formula_info(extract.content)]
  /\ UNCHANGED <<apply, scan, resolve, check, run>>

NextExtract == ExtractFormulaInfo
SpecExtract == InitExtract /\ [][NextExtract]_vars

HasClassLine(content) == \E k \in 1..Len(content) : content[k].kw = "class"
FirstUrl(content) ==
  LET S == {k \in 1..Len(content) : content[k].kw = "url"}
  IN  IF S = {} THEN NoUrl ELSE content[Min(S)].url
\* the name the extractor derives from the name in the url
DerivedName(n) == IF n = "Foo_Bar" THEN "foo-bar" ELSE n
UrlDerived(info, u) ==
  /\ info.kind = "FormulaInfo"
  /\ info.pypi_name = DerivedName(u.name)
  /\ info.version = u.ver

\* C9 as stated: a first url ending in /<name>-<version>.tar.gz with one to
\* four components in <version> yields the name and version of the url.
C9_OneToFour ==
  (/\ extract # Idle /\ extract.pc = "done"
   /\ HasClassLine(extract.content)
   /\ FirstUrl(extract.content).ext = TarGz
   /\ Len(FirstUrl(extract.content).ver) \in 1..4) =>
    UrlDerived(extract.info, FirstUrl(extract.content))

\* C9 amended: the version has two to four components, all numeric except
\* possibly the last of three or four; then the record carries the name of the
\* url (lower case, hyphens) and its version; every other url takes the
\* declared-name / version-literal fallback.
FollowsConvention(u) ==
  /\ u.ext = TarGz
  /\ Len(u.ver) \in 2..4
  /\ \A k \in 1..Len(u.ver) : (k <= 2 \/ k < Len(u.ver)) => u.ver[k] \in Digits
HasLiteral(content) == \E k \in 1..Len(content) : content[k] = VersionLn(LiteralVer)
C9_TwoToFour ==
  (/\ extract # Idle /\ extract.pc = "done"
   /\ HasClassLine(extract.content)
   /\ FirstUrl(extract.content) # NoUrl) =>
    LET u == FirstUrl(extract.content)
    IN  IF FollowsConvention(u) THEN UrlDerived(extract.info, u)
        ELSE IF HasLiteral(extract.content)
        THEN /\ extract.info.kind = "FormulaInfo"
             /\ extract.info.pypi_name = "foo"
             /\ extract.info.version = LiteralVer
        ELSE extract.info.kind = "None"

\* a four-component version with a word last was taken from the url
C9_Witness ==
  /\ extract # Idle /\ extract.pc = "done"
  /\ Len(FirstUrl(extract.content).ver) = 4
  /\ FirstUrl(extract.content).ver[4] \in Words
  /\ FirstUrl(extract.content).name = "Foo_Bar"
  /\ UrlDerived(extract.info, FirstUrl(extract.content))

\* ------------------- check_updates.main, update_formulas.main, and again
PackageNames == <<"foo", "idna", "certifi", "requests">>
ClassName(name) ==
  CASE name = "foo" -> "Foo"
    [] name = "idna" -> "Idna"
    [] name = "certifi" -> "Certifi"
    [] OTHER -> "Requests"

DeclaredVer == <<"0", "1">>
LatestVersions == {DeclaredVer, NewVer, <<"1">>, <<"1", "0", "post1">>}

\* the recipe files of the formula directory: unreadable, without a url, or
\* a recipe with one sub-resource block
RunFiles(name) ==
  { Unreadable,
    <<ClassLn(ClassName(name)), DescLn, EndLn(0)>>,
    <<ClassLn(ClassName(name)), DescLn,
      UrlLn(2, "sp", Url(Canon, "aa/", name, DeclaredVer, TarGz)), ShaLn(2, "OLD")>>
      \o OldBlock("idna")
      \o <<BlankLn, DefInstallLn, BodyLn, EndLn(2), EndLn(0)>> }

\* what the index answers for a package
RunDocs(name) ==
  {PypiNone, PypiNoInfoField}
    \cup {PypiDoc(v, <<WheelOf(name, v), SdistOf(name, v)>>) : v \in LatestVersions}
    \cup {PypiDoc(NewVer, <<WheelOf(name, NewVer)>>),
          PypiDoc(NewVer, <<UrlInfo("sdist", Url(Plain, "", name, NewVer, TarGz), "NEW")>>)}

FormulaFiles == SubSeq(PackageNames, 1, MaxFormulas)
FormulaSet == {FormulaFiles[k] : k \in 1..Len(FormulaFiles)}

InitRun ==
  /\ \E fs \in [FormulaSet -> UNION {RunFiles(n) : n \in FormulaSet}],
        index \in [FormulaSet -> UNION {RunDocs(n) : n \in FormulaSet}],
        no_resources \in BOOLEAN :
       /\ \A n \in FormulaSet : fs[n] \in RunFiles(n) /\ index[n] \in RunDocs(n)
       /\ run = [pc |-> "detect", round |-> 1, fs |-> fs, index |-> index,
                 no_resources |-> no_resources, formula_files |-> FormulaFiles,
                 pos |-> 1, updates |-> <<>>, updates_file |-> <<>>,
                 emitted |-> <<>>, rets |-> <<>>, exits |-> <<>>]
  /\ apply = Idle /\ scan = Idle /\ resolve = Idle /\ check = Idle /\ extract = Idle

\* get_pypi_info(package_name)
get_pypi_info(index, package_name) ==
  IF package_name \in DOMAIN index THEN index[package_name] ELSE PypiNone

\* an uncaught exception ends the process with status 1
Crash(r) == [r EXCEPT !.pc = "crashed", !.exits = Append(@, 1)]

\* one iteration of "for formula_file in formula_files" in check_updates.main
DetectFormula ==
  /\ run # Idle
  /\ run.pc = "detect"
  /\ run.pos <= Len(run.formula_files)
  /\ LET formula_file == run.formula_files[run.pos]
         content == run.fs[formula_file]
         formula_info == extract_formula_info(content)
         update == check_formula_update(
                     formula_info, get_pypi_info(run.index, formula_info.pypi_name))
         next == [run EXCEPT !.pos = @ + 1]
     IN  run' =
           IF content = Unreadable THEN Crash(run)
           ELSE IF formula_info.kind = "None" THEN next
           ELSE IF update.kind = "KeyError" THEN Crash(run)
           ELSE IF update.kind = "UpdateInfo"
           THEN [next EXCEPT !.updates =
                   Append(@, [formula |-> update.formula,
                              pypi_name |-> update.pypi_name,
                              current_version |-> update.current_version,
                              latest_version |-> update.latest_version,
                              tarball_url |-> update.tarball_url,
                              sha256 |-> update.sha256,
                              file_path |-> formula_file])]
           ELSE next
  /\ UNCHANGED <<apply, scan, resolve, check, extract>>

\* after the loop: write the updates file, return 0
DetectExit ==
  /\ run # Idle
  /\ run.pc = "detect"
  /\ run.pos > Len(run.formula_files)
  /\ run' = [run EXCEPT !.pc = "detected",
                        !.updates_file = run.updates,
                        !.emitted = Append(@, run.updates),
                        !.exits = Append(@, 0)]
  /\ UNCHANGED <<apply, scan, resolve, check, extract>>

\* update_formulas.main up to its loop
ApplyStart ==
  /\ run # Idle
  /\ run.pc = "detected"
  /\ run.round < MaxRounds
  /\ run' = IF run.updates_file = <<>>
            THEN [run EXCEPT !.pc = "applied", !.pos = 1, !.exits = Append(@, 0)]
            ELSE [run EXCEPT !.pc = "apply", !.pos = 1]
  /\ UNCHANGED <<apply, scan, resolve, check, extract>>

\* one iteration of "for update in updates" in update_formulas.main
ApplyUpdate ==
  /\ run # Idle
  /\ run.pc = "apply"
  /\ run.pos <= Len(run.updates_file)
  /\ \E deps \in IF run.no_resources THEN {<<>>} ELSE {<<>>, <<Pin("idna")>>} :
       LET update == run.updates_file[run.pos]
           r == update_formula(run.fs[update.file_path], update.tarball_url,
                               update.sha256, ~run.no_resources, deps, PinNames)
       IN  run' =
             IF r.ret \notin {"True", "False"} THEN Crash(run)
             ELSE [run EXCEPT !.pos = @ + 1,
                              !.rets = Append(@, r.ret),
                              !.fs[update.file_path] =
                                 IF r.written THEN r.content ELSE @]
  /\ UNCHANGED <<apply, scan, resolve, check, extract>>

\* after the loop: return 0
ApplyExit ==
  /\ run # Idle
  /\ run.pc = "apply"
  /\ run.pos > Len(run.updates_file)
  /\ run' = [run EXCEPT !.pc = "applied", !.exits = Append(@, 0)]
  /\ UNCHANGED <<apply, scan, resolve, check, extract>>

\* the detection command is run again on the same index
DetectAgain ==
  /\ run # Idle
  /\ run.pc = "applied"
  /\ run' = [run EXCEPT !.pc = "detect", !.round = @ + 1, !.pos = 1,
                        !.updates = <<>>]
  /\ UNCHANGED <<apply, scan, resolve, check, extract>>

NextRun ==
  DetectFormula \/ DetectExit \/ ApplyStart \/ ApplyUpdate \/ ApplyExit \/ DetectAgain
SpecRun == InitRun /\ [][NextRun]_vars

\* C4: in both loops every item is processed whatever happened to the items
\* before it, and the run exits with status 0.
C4_BatchCompletes ==
  (run # Idle /\ run.pc \in {"detected", "applied", "crashed"}) =>
    /\ run.exits[Len(run.exits)] = 0
    /\ run.pos > IF run.pc = "detected" THEN Len(run.formula_files)
                 ELSE IF run.pc = "applied" THEN Len(run.updates_file)
                 ELSE 0

\* C10: every update that detection emits is accepted by the application
\* step, and detection run again on the same index emits nothing for that
\* recipe, whose declared version now is the update's latest_version.
C10_Converges ==
  run # Idle =>
    /\ (run.pc = "applied" /\ run.round = 1) =>
         \A k \in 1..Len(run.rets) : run.rets[k] = "True"
    /\ (run.pc = "detected" /\ run.round = 2) =>
         \A k \in 1..Len(run.emitted[1]) :
           LET u == run.emitted[1][k]
           IN  /\ \A j \in 1..Len(run.emitted[2]) :
                    run.emitted[2][j].file_path # u.file_path
               /\ extract_formula_info(run.fs[u.file_path]).kind = "FormulaInfo"
               /\ extract_formula_info(run.fs[u.file_path]).version = u.latest_version

====
